---- MODULE Spec2Model ----
(***************************************************************************)
(* SafePath Shield: the evacuation planner of engine.py (BuildingMap,      *)
(* SafePathEngine) and the grid A* of map_builder.py.                      *)
(*                                                                         *)
(* Node ids are the integers 1..NumNodes and door ids the integers         *)
(* 1..NumDoors; door id 0 stands for an edge without a door id (a missing, *)
(* None or empty "door_id", all falsy in the source).                      *)
(***************************************************************************)
EXTENDS Integers, Sequences, FiniteSets, TLC

VARIABLES
    node_type,      \* BuildingMap.nodes: node id -> type tag
    edges,          \* BuildingMap.edges: the edge list, in file order
    hazards,        \* SafePathEngine.hazards
    locked_doors,   \* SafePathEngine.locked_doors
    pc,             \* position of the compute_plan call: idle, rooms, doors, return
    idx,            \* index of the next room / edge of the running loop
    path,           \* compute_plan's local `path`: result of the last bfs_to_exit
    room_plans,     \* compute_plan's local room_plans
    doors_state,    \* compute_plan's local doors_state
    used_by_any,    \* compute_plan's local used_by_any
    plan,           \* the plan returned by the latest call since the last hazard update
    calls,          \* number of compute_plan calls returned since the last hazard update
    last_arg,       \* argument of the latest set_hazards call
    dropped,        \* the latest set_hazards call replaced a set holding an id its argument lacks
    obstacle_grid,  \* astar's occupancy grid: its shape and its cells, 1 = blocked, 0 = free
    astar_start,    \* astar's argument start, a cell <<y, x>>
    astar_goal,     \* astar's argument goal, a cell <<y, x>>
    astar_path,     \* the list astar returned
    astar_done,     \* astar has returned
    ser,            \* HardwareInterface.ser: "None" or the open "Serial"
    hw_pc,          \* the interface: "new" (not constructed), "ready", "done" (send_plan over)
    hw_log,         \* the last line the interface printed
    hw_plan,        \* the plan dict handed to send_plan
    hw_written,     \* the call of self.ser.write, if one was made, and its argument
    hw_raised       \* send_plan let an exception out

gvars == <<obstacle_grid, astar_start, astar_goal, astar_path, astar_done>>

evars == <<node_type, edges, hazards, locked_doors, pc, idx, path, room_plans,
           doors_state, used_by_any, plan, calls, last_arg, dropped>>

hvars == <<ser, hw_pc, hw_log, hw_plan, hw_written, hw_raised>>

vars == <<node_type, edges, hazards, locked_doors, pc, idx, path, room_plans,
          doors_state, used_by_any, plan, calls, last_arg, dropped, gvars, hvars>>

----------------------------------------------------------------------------
(* Bounds of the model *)

NumNodes == 3
NumDoors == 2
MaxEdges == 3
MaxCalls == 2

Nodes == 1..NumNodes
Doors == 1..NumDoors
NoDoor == 0

NodeTypes == {"room", "exit", "plain"}

(* An edge of the building definition: {from, to, door_id?}. *)
EdgeValues == {[from |-> a, to |-> b, door_id |-> d] :
                   a \in Nodes, b \in Nodes, d \in {NoDoor} \cup Doors}

(* Adjacency is symmetric (engine.py 19-20) and the door pass reads both   *)
(* endpoints alike (engine.py 99), so the declared orientation of an edge  *)
(* is immaterial: the graphs drawn declare every edge with from < to.      *)
EdgeChoices == {e \in EdgeValues : e.from < e.to}

RECURSIVE SeqsUpTo(_, _)
SeqsUpTo(S, n) ==
    IF n = 0 THEN {<<>>}
    ELSE LET shorter == SeqsUpTo(S, n - 1)
         IN  shorter \cup {Append(s, x) : s \in {t \in shorter : Len(t) = n - 1}, x \in S}

----------------------------------------------------------------------------
(* BuildingMap *)

NodeList == [k \in 1..NumNodes |-> k]

IsExit(n) == node_type[n] = "exit"
IsRoom(n) == node_type[n] = "room"

exits == SelectSeq(NodeList, IsExit)
rooms == SelectSeq(NodeList, IsRoom)

ExitSet == {exits[k] : k \in 1..Len(exits)}

(* adj[n]: the list of (neighbor, edge) pairs of n, in edge insertion      *)
(* order; each edge appends to adj[from] and then to adj[to].  An edge is  *)
(* referred to by its index in the edge list.                              *)
RECURSIVE AdjUpTo(_, _)
AdjUpTo(n, k) ==
    IF k = 0 THEN <<>>
    ELSE LET e == edges[k]
             fwd == IF e.from = n THEN <<[nei |-> e.to, edge |-> k]>> ELSE <<>>
             bwd == IF e.to = n THEN <<[nei |-> e.from, edge |-> k]>> ELSE <<>>
         IN  AdjUpTo(n, k - 1) \o fwd \o bwd

(* Mutant: the order of an adjacency list is not stable between calls (as  *)
(* if adj held unordered sets): repeat calls see it reversed.              *)
RECURSIVE ReverseSeq(_)
ReverseSeq(s) == IF s = <<>> THEN <<>> ELSE Append(ReverseSeq(Tail(s)), Head(s))

AdjUnstable(n) ==
    IF calls > 0 THEN ReverseSeq(AdjUpTo(n, Len(edges))) ELSE AdjUpTo(n, Len(edges))

Adj(n) == AdjUpTo(n, Len(edges))

----------------------------------------------------------------------------
(* SafePathEngine.bfs_to_exit *)

NoPath == [found |-> FALSE, steps |-> <<>>]

(* Mutant: the locked-door test of lines 57-59 is missing. *)
RECURSIVE ExpandNeighborsNoLock(_, _, _, _, _, _)
ExpandNeighborsNoLock(hz, node, steps, nbrs, q, visited) ==
    IF nbrs = <<>> THEN [q |-> q, visited |-> visited]
    ELSE LET nei == Head(nbrs).nei
             edge == Head(nbrs).edge
         IN  IF nei \in visited \/ nei \in hz
             THEN ExpandNeighborsNoLock(hz, node, steps, Tail(nbrs), q, visited)
             ELSE ExpandNeighborsNoLock(hz, node, steps, Tail(nbrs),
                      Append(q, [node |-> nei,
                                 steps |-> Append(steps, [from |-> node, to |-> nei, edge |-> edge])]),
                      visited \cup {nei})

(* Mutant: the hazard test of lines 54-55 is missing. *)
RECURSIVE ExpandNeighborsNoHazard(_, _, _, _, _, _)
ExpandNeighborsNoHazard(hz, node, steps, nbrs, q, visited) ==
    IF nbrs = <<>> THEN [q |-> q, visited |-> visited]
    ELSE LET nei == Head(nbrs).nei
             edge == Head(nbrs).edge
             door_id == edges[edge].door_id
         IN  IF nei \in visited \/ (door_id # NoDoor /\ door_id \in locked_doors)
             THEN ExpandNeighborsNoHazard(hz, node, steps, Tail(nbrs), q, visited)
             ELSE ExpandNeighborsNoHazard(hz, node, steps, Tail(nbrs),
                      Append(q, [node |-> nei,
                                 steps |-> Append(steps, [from |-> node, to |-> nei, edge |-> edge])]),
                      visited \cup {nei})

(* The for-loop over adj[node] (lines 51-62), reading the hazard set hz:   *)
(* leaves the queue and the visited set as the loop leaves them.           *)
RECURSIVE ExpandNeighbors(_, _, _, _, _, _)
ExpandNeighbors(hz, node, steps, nbrs, q, visited) ==
    IF nbrs = <<>> THEN [q |-> q, visited |-> visited]
    ELSE LET nei == Head(nbrs).nei
             edge == Head(nbrs).edge
             door_id == edges[edge].door_id
         IN  IF nei \in visited
             THEN ExpandNeighbors(hz, node, steps, Tail(nbrs), q, visited)
             ELSE IF nei \in hz
             THEN ExpandNeighbors(hz, node, steps, Tail(nbrs), q, visited)
             ELSE IF door_id # NoDoor /\ door_id \in locked_doors
             THEN ExpandNeighbors(hz, node, steps, Tail(nbrs), q, visited)
             ELSE ExpandNeighbors(hz, node, steps, Tail(nbrs),
                      Append(q, [node |-> nei,
                                 steps |-> Append(steps, [from |-> node, to |-> nei, edge |-> edge])]),
                      visited \cup {nei})

(* The while-loop over the queue (lines 45-64). *)
RECURSIVE BfsLoop(_, _, _)
BfsLoop(hz, q, visited) ==
    IF q = <<>> THEN NoPath
    ELSE LET node == Head(q).node
             steps == Head(q).steps
         IN  IF node \in ExitSet
             THEN [found |-> TRUE, steps |-> steps]
             ELSE LET after == ExpandNeighbors(hz, node, steps, Adj(node), Tail(q), visited)
                  IN  BfsLoop(hz, after.q, after.visited)

(* Mutant: the start test of lines 38-39 is missing. *)
BfsUnderNoStartCheck(hz, start) ==
    BfsLoop(hz, <<[node |-> start, steps |-> <<>>]>>, {start})

(* bfs_to_exit(start) with self.hazards = hz. *)
BfsUnder(hz, start) ==
    IF start \in hz THEN NoPath
    ELSE BfsLoop(hz, <<[node |-> start, steps |-> <<>>]>>, {start})

bfs_to_exit(start) == BfsUnder(hazards, start)

----------------------------------------------------------------------------
(* SafePathEngine.set_hazards *)

NoneArg == [none |-> TRUE, ids |-> {}]
Args == {NoneArg} \cup {[none |-> FALSE, ids |-> S] : S \in SUBSET Nodes}

(* set(hazard_nodes or []) *)
ArgToSet(arg) == IF arg.none \/ arg.ids = {} THEN {} ELSE arg.ids

NoPlan == [rooms |-> <<>>, doors |-> <<>>]

(* Mutant: the update merges into the current set instead of replacing it. *)
set_hazards_additive(arg) ==
    /\ hazards' = hazards \cup ArgToSet(arg)
    /\ last_arg' = arg
    /\ dropped' = (hazards \ ArgToSet(arg) # {})
    /\ plan' = NoPlan
    /\ calls' = 0
    /\ UNCHANGED <<gvars, hvars, node_type, edges, locked_doors, pc, idx, path, room_plans,
                   doors_state, used_by_any>>

set_hazards(arg) ==
    /\ hazards' = ArgToSet(arg)
    /\ last_arg' = arg
    /\ dropped' = (hazards \ ArgToSet(arg) # {})
    /\ plan' = NoPlan
    /\ calls' = 0
    /\ UNCHANGED <<gvars, hvars, node_type, edges, locked_doors, pc, idx, path, room_plans,
                   doors_state, used_by_any>>

(* A call made between two compute_plan calls (single-threaded caller). *)
SetHazards == \E arg \in Args : pc = "idle" /\ set_hazards(arg)

----------------------------------------------------------------------------
(* SafePathEngine.compute_plan *)

AfterRooms == IF Len(edges) = 0 THEN "return" ELSE "doors"

(* Lines 68-70: fresh locals. *)
StartCompute ==
    /\ pc = "idle"
    /\ calls < MaxCalls
    /\ room_plans' = <<>>
    /\ doors_state' = <<>>
    /\ used_by_any' = {}
    /\ path' = NoPath
    /\ idx' = 1
    /\ pc' = IF Len(rooms) = 0 THEN AfterRooms ELSE "rooms"
    /\ UNCHANGED <<gvars, hvars, node_type, edges, hazards, locked_doors, plan, calls, last_arg, dropped>>

RECURSIVE DoorIdsOf(_)
DoorIdsOf(steps) ==
    IF steps = <<>> THEN <<>>
    ELSE LET d == edges[Head(steps).edge].door_id
         IN  (IF d # NoDoor THEN <<d>> ELSE <<>>) \o DoorIdsOf(Tail(steps))

SeqRange(s) == {s[k] : k \in 1..Len(s)}

(* Lines 75-86: the RoomPlan made from a bfs_to_exit result. *)
(* Mutant: the exit recorded is the node after the first hop. *)
RoomPlanOfFirstHop(p) ==
    IF ~p.found THEN [mode |-> "LOCKDOWN"]
    ELSE [mode |-> "EVAC",
          exit |-> p.steps[1].to,
          path_edges |-> DoorIdsOf(p.steps)]

RoomPlanOf(p) ==
    IF ~p.found THEN [mode |-> "LOCKDOWN"]
    ELSE [mode |-> "EVAC",
          exit |-> p.steps[Len(p.steps)].to,
          path_edges |-> DoorIdsOf(p.steps)]

(* Mutant: only the first door id of a path is recorded as used. *)
UsedAfterFirstOnly(used, p) ==
    IF p.found /\ DoorIdsOf(p.steps) # <<>> THEN used \cup {Head(DoorIdsOf(p.steps))} ELSE used

(* Lines 88-89: used_by_any after the door ids of the path p are added. *)
UsedAfter(used, p) ==
    IF p.found THEN used \cup SeqRange(DoorIdsOf(p.steps)) ELSE used

(* One iteration of the loop over self.b.rooms (lines 73-89). *)
RoomStep ==
    /\ pc = "rooms"
    /\ idx <= Len(rooms)
    /\ LET r == rooms[idx]
           p == bfs_to_exit(r)
       IN  /\ path' = p
           /\ room_plans' = (r :> RoomPlanOf(p)) @@ room_plans
           /\ used_by_any' = UsedAfter(used_by_any, p)
    /\ idx' = IF idx = Len(rooms) THEN 1 ELSE idx + 1
    /\ pc' = IF idx = Len(rooms) THEN AfterRooms ELSE "rooms"
    /\ UNCHANGED <<gvars, hvars, node_type, edges, hazards, locked_doors, doors_state, plan, calls,
                   last_arg, dropped>>

(* doors_state[d] of the defaultdict(lambda: "UNLOCK"). *)
DoorGet(ds, d) == IF d \in DOMAIN ds THEN ds[d] ELSE "UNLOCK"

(* Mutant: the else branch of lines 103-106 is missing, so an unused door  *)
(* without a hazardous endpoint never gets LOCK_IDLE.                      *)
DoorUpdateUnderNoIdle(hz, used, ds, e) ==
    LET d == e.door_id
    IN  IF d = NoDoor THEN ds
        ELSE IF e.from \in hz \/ e.to \in hz
        THEN (d :> "LOCK_BLOCK_THREAT") @@ ds
        ELSE IF d \in used
        THEN (d :> "UNLOCK") @@ ds
        ELSE ds

(* Lines 93-106: the effect of the edge e on doors_state, with              *)
(* self.hazards = hz and used_by_any = used.                                *)
DoorUpdateUnder(hz, used, ds, e) ==
    LET d == e.door_id
    IN  IF d = NoDoor THEN ds
        ELSE IF e.from \in hz \/ e.to \in hz
        THEN (d :> "LOCK_BLOCK_THREAT") @@ ds
        ELSE IF d \in used
        THEN (d :> "UNLOCK") @@ ds
        ELSE IF DoorGet(ds, d) # "LOCK_BLOCK_THREAT"
        THEN (d :> "LOCK_IDLE") @@ ds
        ELSE ds

(* Mutant: a door id that already has a state no longer counts as used. *)
DoorUpdateUsedOnce(ds, e) == DoorUpdateUnder(hazards, used_by_any \ DOMAIN ds, ds, e)

DoorUpdate(ds, e) == DoorUpdateUnder(hazards, used_by_any, ds, e)

(* One iteration of the loop over self.b.edges (lines 92-106). *)
EdgeStep ==
    /\ pc = "doors"
    /\ idx <= Len(edges)
    /\ doors_state' = DoorUpdate(doors_state, edges[idx])
    /\ idx' = IF idx = Len(edges) THEN 1 ELSE idx + 1
    /\ pc' = IF idx = Len(edges) THEN "return" ELSE "doors"
    /\ UNCHANGED <<gvars, hvars, node_type, edges, hazards, locked_doors, path, room_plans, used_by_any,
                   plan, calls, last_arg, dropped>>

(* Lines 108-111: the returned dict; the locals die with the call. *)
ReturnPlan ==
    /\ pc = "return"
    /\ plan' = [rooms |-> room_plans, doors |-> doors_state]
    /\ calls' = calls + 1
    /\ pc' = "idle"
    /\ idx' = 1
    /\ path' = NoPath
    /\ room_plans' = <<>>
    /\ doors_state' = <<>>
    /\ used_by_any' = {}
    /\ UNCHANGED <<gvars, hvars, node_type, edges, hazards, locked_doors, last_arg, dropped>>

----------------------------------------------------------------------------
(* The engine after construction over some building definition. *)

NoWrite == [called |-> FALSE, msg |-> <<>>]

(* No HardwareInterface has been constructed. *)
NoHardware ==
    /\ ser = "None"
    /\ hw_pc = "new"
    /\ hw_log = ""
    /\ hw_plan = [doors |-> <<>>]
    /\ hw_written = NoWrite
    /\ hw_raised = FALSE

NoGrid == [hmax |-> 0, wmax |-> 0, cells |-> <<>>]

(* The buildings: node 1 is a room, the last node an exit, every other     *)
(* node of any type (up to a renaming of the nodes, every building with a  *)
(* room and an exit), with every edge list of at most MaxEdges edges.      *)
RoomLayouts == {t \in [Nodes -> NodeTypes] : t[1] = "room" /\ t[NumNodes] = "exit"}

(* SafePathEngine.__init__ leaves hazards empty.  locked_doors is the      *)
(* public field of line 30, "door_ids manually forced locked": no method   *)
(* writes it, its owner assigns it, so it is any set of door ids and stays *)
(* what it is.                                                             *)
Init ==
    /\ node_type \in RoomLayouts
    /\ edges \in SeqsUpTo(EdgeChoices, MaxEdges)
    /\ hazards = {}
    /\ locked_doors \in SUBSET Doors
    /\ pc = "idle"
    /\ idx = 1
    /\ path = NoPath
    /\ room_plans = <<>>
    /\ doors_state = <<>>
    /\ used_by_any = {}
    /\ plan = NoPlan
    /\ calls = 0
    /\ last_arg = NoneArg
    /\ dropped = FALSE
    /\ obstacle_grid = NoGrid
    /\ astar_start = <<0, 0>>
    /\ astar_goal = <<0, 0>>
    /\ astar_path = <<>>
    /\ astar_done = FALSE
    /\ NoHardware

Next ==
    \/ SetHazards
    \/ StartCompute
    \/ RoomStep
    \/ EdgeStep
    \/ ReturnPlan

Spec == Init /\ [][Next]_vars

----------------------------------------------------------------------------
(* The deployment of spec section 5: a second thread calls set_hazards     *)
(* while compute_plan runs.  Neither method takes a lock, so the call may  *)
(* fall between any two steps of compute_plan.                             *)

SetHazardsConcurrently == \E arg \in Args : set_hazards(arg)

NextConc ==
    \/ SetHazardsConcurrently
    \/ StartCompute
    \/ RoomStep
    \/ EdgeStep
    \/ ReturnPlan

(* The building of the spec's scenarios A and B (rooms and one exit),      *)
(* with no door forced locked.                                             *)
ScenarioLayout == [n \in Nodes |-> IF n = NumNodes THEN "exit" ELSE "room"]

InitConc == Init /\ node_type = ScenarioLayout /\ locked_doors = {}

SpecConc == InitConc /\ [][NextConc]_vars

----------------------------------------------------------------------------
(* map_builder.astar: A* on an occupancy grid *)

MaxCells == 12

(* A cell is <<y, x>>, 0-based as in the source.  A priority f = g + h is  *)
(* the float tentative + math.hypot(dy, dx): it is kept exactly, as the    *)
(* pair of the integer g and the integer d2 = dy*dy + dx*dx, standing for  *)
(* g + sqrt(d2).                                                           *)
CellsOf(hmax, wmax) == (0..(hmax - 1)) \X (0..(wmax - 1))

GridsOf(hmax, wmax) ==
    {[hmax |-> hmax, wmax |-> wmax, cells |-> c] : c \in [CellsOf(hmax, wmax) -> {0, 1}]}

FreeCells(g) == {c \in CellsOf(g.hmax, g.wmax) : g.cells[c] = 0}

(* h(a, b) squared: (a[0] - b[0])**2 + (a[1] - b[1])**2 *)
HSquared(a, b) == (a[1] - b[1]) * (a[1] - b[1]) + (a[2] - b[2]) * (a[2] - b[2])

(* g1 + sqrt(a) < g2 + sqrt(b), decided in the integers. *)
PriorityLess(g1, a, g2, b) ==
    LET d == g2 - g1
    IN  IF d >= 0
        THEN LET c == a - b - d * d
             IN  c < 0 \/ c * c < 4 * d * d * b
        ELSE LET c == b - a - d * d
             IN  c > 0 /\ 4 * d * d * a < c * c

(* Python's order on cell tuples. *)
CellLess(c1, c2) == c1[1] < c2[1] \/ (c1[1] = c2[1] /\ c1[2] < c2[2])

(* Mutant: the heap yields the entry of greatest f first (a max-heap). *)
EntryLessReversed(e1, e2) ==
    \/ PriorityLess(e2.g, e2.d2, e1.g, e1.d2)
    \/ /\ ~PriorityLess(e1.g, e1.d2, e2.g, e2.d2)
       /\ CellLess(e1.cell, e2.cell)

(* The order of the heap entries (f, cell): by f, then by cell. *)
EntryLess(e1, e2) ==
    \/ PriorityLess(e1.g, e1.d2, e2.g, e2.d2)
    \/ /\ ~PriorityLess(e2.g, e2.d2, e1.g, e1.d2)
       /\ CellLess(e1.cell, e2.cell)

(* heappop: the least entry of the heap.  The heap is kept as the set of   *)
(* its entries: a cell is pushed only with a g below every g it was pushed *)
(* with before (line 53), so no entry is pushed twice.                     *)
HeapTop(open_heap) ==
    CHOOSE e \in open_heap : \A o \in open_heap \ {e} : EntryLess(e, o)

neighbors == <<<<1, 0>>, <<-1, 0>>, <<0, 1>>, <<0, -1>>>>

GScoreGet(gscore, c) == IF c \in DOMAIN gscore THEN gscore[c] ELSE 1000000

(* Lines 45-57: the for-loop over the four neighbors of current, from the  *)
(* k-th on.                                                                *)
RECURSIVE ExpandCell(_, _, _, _, _)
ExpandCell(st, current, k, g, target) ==
    IF k > Len(neighbors) THEN st
    ELSE LET ny == current[1] + neighbors[k][1]
             nx == current[2] + neighbors[k][2]
             tentative == st.gscore[current] + 1
         IN  IF ny < 0 \/ ny >= g.hmax \/ nx < 0 \/ nx >= g.wmax
             THEN ExpandCell(st, current, k + 1, g, target)
             ELSE IF g.cells[<<ny, nx>>] = 1
             THEN ExpandCell(st, current, k + 1, g, target)
             ELSE IF tentative < GScoreGet(st.gscore, <<ny, nx>>)
             THEN ExpandCell(
                      [came_from |-> (<<ny, nx>> :> current) @@ st.came_from,
                       gscore |-> (<<ny, nx>> :> tentative) @@ st.gscore,
                       open_heap |-> st.open_heap \cup
                           {[g |-> tentative, d2 |-> HSquared(<<ny, nx>>, target),
                             cell |-> <<ny, nx>>]}],
                      current, k + 1, g, target)
             ELSE ExpandCell(st, current, k + 1, g, target)

(* Lines 37-42: the path from the goal back along came_from, reversed. *)
RECURSIVE PathTo(_, _)
PathTo(came_from, current) ==
    IF current \in DOMAIN came_from
    THEN Append(PathTo(came_from, came_from[current]), current)
    ELSE <<current>>

(* Lines 34-59: the while-loop over the heap. *)
RECURSIVE AstarLoop(_, _, _)
AstarLoop(st, g, target) ==
    IF st.open_heap = {} THEN <<>>
    ELSE LET top == HeapTop(st.open_heap)
             current == top.cell
             popped == [st EXCEPT !.open_heap = st.open_heap \ {top}]
         IN  IF current = target
             THEN PathTo(st.came_from, current)
             ELSE AstarLoop(ExpandCell(popped, current, 1, g, target), g, target)

astar(s, target, g) ==
    AstarLoop([open_heap |-> {[g |-> 0, d2 |-> 0, cell |-> s]},
               came_from |-> <<>>,
               gscore |-> (s :> 0)],
              g, target)

RunAstar ==
    /\ ~astar_done
    /\ astar_path' = astar(astar_start, astar_goal, obstacle_grid)
    /\ astar_done' = TRUE
    /\ UNCHANGED <<obstacle_grid, astar_start, astar_goal>>
    /\ UNCHANGED hvars
    /\ UNCHANGED <<node_type, edges, hazards, locked_doors, pc, idx, path, room_plans,
                   doors_state, used_by_any, plan, calls, last_arg, dropped>>

(* The grids: every grid of every shape with at most MaxCells cells, and   *)
(* the all-free 5 x 5 grid of the spec's scenario C, from (0,0) to (4,4).  *)
ScenarioC == [hmax |-> 5, wmax |-> 5, cells |-> [c \in CellsOf(5, 5) |-> 0]]

InitGrid ==
    /\ \/ /\ \E hmax \in 1..MaxCells, wmax \in 1..MaxCells :
                /\ hmax * wmax <= MaxCells
                /\ obstacle_grid \in GridsOf(hmax, wmax)
          /\ astar_start \in FreeCells(obstacle_grid)
          /\ astar_goal \in FreeCells(obstacle_grid)
       \/ /\ obstacle_grid = ScenarioC
          /\ astar_start = <<0, 0>>
          /\ astar_goal = <<4, 4>>
    /\ astar_path = <<>>
    /\ astar_done = FALSE
    /\ node_type = ScenarioLayout
    /\ edges = <<>>
    /\ hazards = {}
    /\ locked_doors = {}
    /\ pc = "idle"
    /\ idx = 1
    /\ path = NoPath
    /\ room_plans = <<>>
    /\ doors_state = <<>>
    /\ used_by_any = {}
    /\ plan = NoPlan
    /\ calls = 0
    /\ last_arg = NoneArg
    /\ dropped = FALSE
    /\ NoHardware

NextGrid == RunAstar

SpecGrid == InitGrid /\ [][NextGrid]_vars

----------------------------------------------------------------------------
(* hardware.HardwareInterface: the serial link to the door controller *)

DoorStates == {"UNLOCK", "LOCK_IDLE", "LOCK_BLOCK_THREAT"}

(* The doors map of a plan, a dict: its items in iteration order, no key   *)
(* twice.                                                                  *)
DoorItems == {[door_id |-> d, state |-> s] : d \in Doors, s \in DoorStates}

DoorMaps == {m \in SeqsUpTo(DoorItems, NumDoors) :
                 \A i \in 1..Len(m), j \in 1..Len(m) : i # j => m[i].door_id # m[j].door_id}

(* Text is a sequence of tokens: a word, a digit, a space or a newline.    *)
Digit == <<"0", "1", "2", "3", "4", "5", "6", "7", "8", "9">>

(* The text an f-string puts for a door id. *)
RECURSIVE Str(_)
Str(n) == IF n < 10 THEN <<Digit[n + 1]>> ELSE Str(n \div 10) \o <<Digit[(n % 10) + 1]>>

(* Line 35: f"DOOR {door_id} {state}". *)
Line(item) == <<"DOOR", " ">> \o Str(item.door_id) \o <<" ", item.state>>

(* Lines 33-35: the list `lines`, one element per item of the doors map. *)
Lines(doors) == [k \in 1..Len(doors) |-> Line(doors[k])]

(* sep.join(ls) *)
RECURSIVE Join(_, _)
Join(ls, sep) ==
    IF Len(ls) = 0 THEN <<>>
    ELSE IF Len(ls) = 1 THEN ls[1]
    ELSE ls[1] \o sep \o Join(Tail(ls), sep)

(* Line 36: msg = "\n".join(lines) + "\nEND\n". *)
Message(p) == Join(Lines(p.doors), <<"\n">>) \o <<"\n", "END", "\n">>

(* __init__ (lines 15-27): pyserial is missing, the port does not open, or *)
(* the link is up.                                                         *)
HardwareInterface ==
    /\ hw_pc = "new"
    /\ \E outcome \in {"no pyserial", "open failed", "connected"} :
          /\ ser' = IF outcome = "connected" THEN "Serial" ELSE "None"
          /\ hw_log' = outcome
    /\ hw_pc' = "ready"
    /\ UNCHANGED <<evars, gvars, hw_plan, hw_written, hw_raised>>

(* send_plan (lines 29-41).  The write succeeds or raises; the except      *)
(* clause of lines 40-41 prints and falls through to the return.           *)
send_plan ==
    /\ hw_pc = "ready"
    /\ IF ser = "None"
       THEN UNCHANGED <<hw_written, hw_log>>
       ELSE \E raises \in BOOLEAN :
               /\ hw_written' = [called |-> TRUE, msg |-> Message(hw_plan)]
               /\ hw_log' = IF raises THEN "write failed" ELSE hw_log
    /\ hw_raised' = FALSE
    /\ hw_pc' = "done"
    /\ UNCHANGED <<evars, gvars, ser, hw_plan>>

(* The caller's plan: any doors map; the interface is yet to be built.     *)
InitHw ==
    /\ hw_plan \in [doors : DoorMaps]
    /\ ser = "None"
    /\ hw_pc = "new"
    /\ hw_log = ""
    /\ hw_written = NoWrite
    /\ hw_raised = FALSE
    /\ node_type = ScenarioLayout
    /\ edges = <<>>
    /\ hazards = {}
    /\ locked_doors = {}
    /\ pc = "idle"
    /\ idx = 1
    /\ path = NoPath
    /\ room_plans = <<>>
    /\ doors_state = <<>>
    /\ used_by_any = {}
    /\ plan = NoPlan
    /\ calls = 0
    /\ last_arg = NoneArg
    /\ dropped = FALSE
    /\ obstacle_grid = NoGrid
    /\ astar_start = <<0, 0>>
    /\ astar_goal = <<0, 0>>
    /\ astar_path = <<>>
    /\ astar_done = FALSE

NextHw ==
    \/ HardwareInterface
    \/ send_plan

SpecHw == InitHw /\ [][NextHw]_vars

----------------------------------------------------------------------------
(* compute_plan as a function of the hazard set (lines 66-111). *)

RECURSIVE RoomsPass(_, _)
RoomsPass(hz, k) ==
    IF k = 0 THEN [room_plans |-> <<>>, used |-> {}]
    ELSE LET before == RoomsPass(hz, k - 1)
             r == rooms[k]
             p == BfsUnder(hz, r)
         IN  [room_plans |-> (r :> RoomPlanOf(p)) @@ before.room_plans,
              used |-> UsedAfter(before.used, p)]

RECURSIVE DoorsPass(_, _, _)
DoorsPass(hz, used, k) ==
    IF k = 0 THEN <<>>
    ELSE DoorUpdateUnder(hz, used, DoorsPass(hz, used, k - 1), edges[k])

PlanUnder(hz) ==
    LET rp == RoomsPass(hz, Len(rooms))
    IN  [rooms |-> rp.room_plans, doors |-> DoorsPass(hz, rp.used, Len(edges))]

----------------------------------------------------------------------------
(* Vocabulary of the properties *)

HasPlan == calls > 0

RoomSet == SeqRange(rooms)

GraphDoorIds == {edges[k].door_id : k \in 1..Len(edges)} \ {NoDoor}

EdgesOfDoor(d) == {k \in 1..Len(edges) : edges[k].door_id = d}

HazardousEdge(d) ==
    \E k \in EdgesOfDoor(d) : edges[k].from \in hazards \/ edges[k].to \in hazards

EvacRooms == {r \in DOMAIN plan.rooms : plan.rooms[r].mode = "EVAC"}

UsedByEvac(d) == \E r \in EvacRooms : d \in SeqRange(plan.rooms[r].path_edges)

Passable(k, lk) == edges[k].door_id = NoDoor \/ edges[k].door_id \notin lk

(* S and the nodes outside hz one passable edge away from S. *)
OneHop(S, hz, lk) ==
    S \cup {v \in Nodes \ hz :
               \E k \in 1..Len(edges) :
                   /\ Passable(k, lk)
                   /\ \/ edges[k].from \in S /\ edges[k].to = v
                      \/ edges[k].to \in S /\ edges[k].from = v}

(* The nodes some path of at most n edges reaches from start, visiting no  *)
(* node of hz and crossing no edge whose door id is in lk.                 *)
RECURSIVE ReachWithin(_, _, _, _)
ReachWithin(start, n, hz, lk) ==
    IF n = 0 THEN (IF start \in hz THEN {} ELSE {start})
    ELSE OneHop(ReachWithin(start, n - 1, hz, lk), hz, lk)

Minimum(S) == CHOOSE x \in S : \A y \in S : x <= y

(* The least number of edges of such a path to an exit; -1 without one. *)
MinHops(start, hz, lk) ==
    LET ns == {n \in 0..NumNodes : ReachWithin(start, n, hz, lk) \cap ExitSet # {}}
    IN  IF ns = {} THEN -1 ELSE Minimum(ns)

(* The room whose bfs_to_exit result `path` holds. *)
CurrentRoom == IF pc = "rooms" THEN rooms[idx - 1] ELSE rooms[Len(rooms)]

----------------------------------------------------------------------------
(* C1: whenever bfs_to_exit(room) returns a path, its number of edges is   *)
(* the minimum hop count over all paths from room to any exit that visit   *)
(* only non-hazardous nodes and cross no edge with a locked door id.       *)
C1_MinimumHops ==
    path.found => Len(path.steps) = MinHops(CurrentRoom, hazards, locked_doors)

(* A locked door on the one-hop route forces the two-hop route. *)
C1_Witness ==
    /\ path.found
    /\ Len(path.steps) = 2
    /\ MinHops(CurrentRoom, hazards, {}) = 1

(* C2: in the returned plan a door id is LOCK_BLOCK_THREAT if and only if  *)
(* at least one edge carrying it has an endpoint in the hazard set,        *)
(* whatever the order of the edges.                                        *)
C2_ThreatDominates ==
    HasPlan =>
        \A d \in GraphDoorIds :
            /\ d \in DOMAIN plan.doors
            /\ (plan.doors[d] = "LOCK_BLOCK_THREAT") <=> HazardousEdge(d)

(* C3, as claimed: a room is EVAC if and only if some path from it to an   *)
(* exit passes through no hazardous node; otherwise it is LOCKDOWN.        *)
C3_EvacIffHazardFreePath ==
    HasPlan =>
        \A r \in RoomSet :
            /\ r \in DOMAIN plan.rooms
            /\ plan.rooms[r].mode \in {"EVAC", "LOCKDOWN"}
            /\ (plan.rooms[r].mode = "EVAC") <=> (MinHops(r, hazards, {}) >= 0)

(* C3, amended: a room is EVAC if and only if some path from it to an exit *)
(* passes through no hazardous node and crosses no edge whose door id is   *)
(* in the locked-door set; otherwise it is LOCKDOWN.                       *)
C3_EvacIffSafePath ==
    HasPlan =>
        \A r \in RoomSet :
            /\ r \in DOMAIN plan.rooms
            /\ plan.rooms[r].mode \in {"EVAC", "LOCKDOWN"}
            /\ (plan.rooms[r].mode = "EVAC") <=> (MinHops(r, hazards, locked_doors) >= 0)

(* One room evacuates; another, not hazardous, has a route free of hazards *)
(* that a locked door closes, and is LOCKDOWN.                             *)
C3_Witness ==
    /\ HasPlan
    /\ \E r \in RoomSet : plan.rooms[r].mode = "EVAC"
    /\ \E r \in RoomSet :
           /\ plan.rooms[r].mode = "LOCKDOWN"
           /\ r \notin hazards
           /\ MinHops(r, hazards, {}) >= 0
           /\ MinHops(r, hazards, locked_doors) = -1

(* C4: a room in the hazard set is LOCKDOWN, even next to a safe exit. *)
C4_HazardousRoomLockdown ==
    HasPlan => \A r \in RoomSet \cap hazards : plan.rooms[r].mode = "LOCKDOWN"

C4_Witness ==
    /\ HasPlan
    /\ \E r \in RoomSet \cap hazards :
           /\ plan.rooms[r].mode = "LOCKDOWN"
           /\ \E k \in 1..Len(edges) :
                  /\ Passable(k, locked_doors)
                  /\ \/ edges[k].from = r /\ edges[k].to \in ExitSet \ hazards
                     \/ edges[k].to = r /\ edges[k].from \in ExitSet \ hazards

(* C5: the returned rooms map and doors map are the ones one and the same  *)
(* hazard set produces, also when set_hazards runs during compute_plan.    *)
C5_SingleSnapshot ==
    HasPlan => \E hz \in SUBSET Nodes : plan = PlanUnder(hz)

(* C6: a door id none of whose edges has a hazardous endpoint and which is *)
(* in the path_edges of some EVAC room is UNLOCK.                          *)
C6_UsedDoorUnlocked ==
    HasPlan =>
        \A d \in GraphDoorIds :
            (~HazardousEdge(d) /\ UsedByEvac(d)) =>
                (d \in DOMAIN plan.doors /\ plan.doors[d] = "UNLOCK")

(* Two edges share the door id; a path crosses one of them. *)
C6_Witness ==
    /\ HasPlan
    /\ hazards # {}
    /\ \E d \in GraphDoorIds :
           /\ ~HazardousEdge(d)
           /\ UsedByEvac(d)
           /\ Cardinality(EdgesOfDoor(d)) >= 2
           /\ plan.doors[d] = "UNLOCK"

(* C7: a door id in no EVAC room's path_edges and none of whose edges has  *)
(* a hazardous endpoint is LOCK_IDLE, and is present in the doors map.     *)
C7_UnusedDoorIdle ==
    HasPlan =>
        \A d \in GraphDoorIds :
            (~HazardousEdge(d) /\ ~UsedByEvac(d)) =>
                (d \in DOMAIN plan.doors /\ plan.doors[d] = "LOCK_IDLE")

C7_Witness ==
    /\ HasPlan
    /\ EvacRooms # {}
    /\ \E d \in GraphDoorIds :
           /\ ~HazardousEdge(d)
           /\ ~UsedByEvac(d)
           /\ plan.doors[d] = "LOCK_IDLE"

(* C8: the hazard set is exactly the set of ids of the last set_hazards    *)
(* argument (empty for None or an empty argument), nothing of earlier      *)
(* calls is retained, and a later compute_plan uses only that set.         *)
C8_ReplaceAll ==
    /\ hazards = ArgToSet(last_arg)
    /\ HasPlan => plan = PlanUnder(ArgToSet(last_arg))

(* The last call dropped an id of the set it replaced; a plan followed. *)
C8_Witness ==
    /\ dropped
    /\ hazards # {}
    /\ HasPlan

GridOneMove(g, S) ==
    S \cup {c \in FreeCells(g) :
               \E b \in S : (c[1] - b[1]) * (c[1] - b[1]) + (c[2] - b[2]) * (c[2] - b[2]) = 1}

(* With S the free cells within n moves of the start: the least number of  *)
(* moves that reaches t; -1 when no number does.                           *)
RECURSIVE GridDistanceFrom(_, _, _, _)
GridDistanceFrom(g, S, t, n) ==
    IF t \in S THEN n
    ELSE LET ds == {IF T = S THEN -1 ELSE GridDistanceFrom(g, T, t, n + 1) :
                       T \in {GridOneMove(g, S)}}
         IN  CHOOSE d \in ds : TRUE

(* The shortest 4-connected free-cell distance from s to t. *)
GridDistance(g, s, t) == GridDistanceFrom(g, {s}, t, 0)

FourAdjacent(a, b) ==
    (a[1] - b[1]) * (a[1] - b[1]) + (a[2] - b[2]) * (a[2] - b[2]) = 1

(* C10: astar returns either a path from start to goal, every consecutive  *)
(* pair of cells 4-adjacent, every cell in bounds and free, with as many   *)
(* moves as the shortest 4-connected free-cell distance, or the empty      *)
(* sequence, and the empty sequence exactly when the goal is unreachable;  *)
(* on the all-free 5 x 5 grid from (0,0) to (4,4) the path has 9 cells.    *)
C10_AstarShortestPath ==
    astar_done =>
        LET dist == GridDistance(obstacle_grid, astar_start, astar_goal)
        IN  /\ (astar_path = <<>>) <=> (dist = -1)
            /\ astar_path # <<>> =>
                   /\ astar_path[1] = astar_start
                   /\ astar_path[Len(astar_path)] = astar_goal
                   /\ \A k \in 1..(Len(astar_path) - 1) :
                          FourAdjacent(astar_path[k], astar_path[k + 1])
                   /\ \A k \in 1..Len(astar_path) :
                          astar_path[k] \in FreeCells(obstacle_grid)
                   /\ Len(astar_path) - 1 = dist
            /\ obstacle_grid = ScenarioC => Len(astar_path) = 9

(* A path that goes round blocked cells: longer than the straight-line     *)
(* (Manhattan) distance between its ends.                                  *)
C10_Witness ==
    /\ astar_done
    /\ astar_path # <<>>
    /\ \E c \in CellsOf(obstacle_grid.hmax, obstacle_grid.wmax) : obstacle_grid.cells[c] = 1
    /\ LET dy == astar_start[1] - astar_goal[1]
           dx == astar_start[2] - astar_goal[2]
       IN  Len(astar_path) - 1 >
               (IF dy < 0 THEN -dy ELSE dy) + (IF dx < 0 THEN -dx ELSE dx)

----------------------------------------------------------------------------
(* The lines of a text: the tokens before each newline, and what follows   *)
(* the last newline.                                                       *)
RECURSIVE LinesOfText(_, _)
LinesOfText(t, cur) ==
    IF t = <<>> THEN [lines |-> <<>>, rest |-> cur]
    ELSE IF Head(t) = "\n"
    THEN LET r == LinesOfText(Tail(t), <<>>)
         IN  [lines |-> <<cur>> \o r.lines, rest |-> r.rest]
    ELSE LinesOfText(Tail(t), Append(cur, Head(t)))

SendPlanStep == hw_pc = "ready" /\ hw_pc' = "done"

(* C11 (first half): send_plan returns normally and leaves the plan as it  *)
(* was, whether the link is absent (then nothing is written) or the write  *)
(* raises.                                                                 *)
C11_AbsorbsFailures ==
    [][SendPlanStep =>
          /\ ~hw_raised'
          /\ hw_plan' = hw_plan
          /\ (ser = "None" => ~hw_written'.called)]_vars

(* C11: send_plan returns normally without raising and leaves the plan     *)
(* unchanged, writing nothing when the link is absent; a message it writes *)
(* is one line DOOR <door_id> <STATE> per entry of the doors map, in order, *)
(* then the line END, and nothing else.                                    *)
C11_SendPlanContract ==
    [][SendPlanStep =>
          /\ ~hw_raised'
          /\ hw_plan' = hw_plan
          /\ (ser = "None" => ~hw_written'.called)
          /\ (hw_written'.called =>
                 LET t == LinesOfText(hw_written'.msg, <<>>)
                 IN  /\ t.rest = <<>>
                     /\ t.lines = Lines(hw_plan.doors) \o << <<"END">> >>)]_vars

(* C11 for a plan with at least one door: the message is its DOOR lines    *)
(* and the END line.                                                       *)
C11_NonEmptyMessage ==
    (hw_written.called /\ hw_plan.doors # <<>>) =>
        LET t == LinesOfText(hw_written.msg, <<>>)
        IN  /\ t.rest = <<>>
            /\ t.lines = Lines(hw_plan.doors) \o << <<"END">> >>

(* What a plan without doors gets written: an empty line, then END. *)
C11_EmptyPlanMessage ==
    (hw_written.called /\ hw_plan.doors = <<>>) =>
        LinesOfText(hw_written.msg, <<>>).lines = << <<>>, <<"END">> >>

----------------------------------------------------------------------------
(* The edge has a hazardous endpoint (line 99). *)
ThreatEdge(e) == e.from \in hazards \/ e.to \in hazards

(* The number of edges the running door pass has evaluated. *)
EdgesDone == IF pc = "doors" THEN idx - 1 ELSE IF pc = "return" THEN Len(edges) ELSE 0

(* Edge k, already evaluated, assigned UNLOCK to the door id d (lines       *)
(* 101-102; the hazard set does not change during a call under Spec).      *)
AssignedUnlockAt(k, d) ==
    /\ k \in 1..EdgesDone
    /\ edges[k].door_id = d
    /\ ~ThreatEdge(edges[k])
    /\ d \in used_by_any

(* The door pass over any edge list es. *)
RECURSIVE PassOver(_, _, _, _)
PassOver(hz, used, es, k) ==
    IF k = 0 THEN <<>>
    ELSE DoorUpdateUnder(hz, used, PassOver(hz, used, es, k - 1), es[k])

(* The edge lists over the nodes of the building at hand. *)
EdgeLists ==
    SeqsUpTo({e \in EdgeChoices : e.from \in DOMAIN node_type /\ e.to \in DOMAIN node_type},
             MaxEdges)

(* C12 as claimed: over the nodes of the building, some edge list, hazard   *)
(* set and used-by-any set make the door pass assign UNLOCK to a door id at *)
(* an edge i and LOCK_IDLE at a later non-threat edge j carrying the same   *)
(* door id, the door id ending LOCK_IDLE.                                   *)
C12_DowngradeReachable ==
    \E es \in EdgeLists, hz \in SUBSET DOMAIN node_type, used \in SUBSET Doors :
        \E i \in 1..Len(es), j \in 1..Len(es) :
            LET d == es[i].door_id
                NonThreat(e) == e.from \notin hz /\ e.to \notin hz
            IN  /\ i < j
                /\ d # NoDoor
                /\ es[j].door_id = d
                /\ NonThreat(es[i])
                /\ NonThreat(es[j])
                /\ PassOver(hz, used, es, i)[d] = "UNLOCK"
                /\ PassOver(hz, used, es, j)[d] = "LOCK_IDLE"
                /\ PassOver(hz, used, es, Len(es))[d] = "LOCK_IDLE"

(* C12, amended: the door pass never downgrades.  A door id that an edge    *)
(* assigned UNLOCK is not LOCK_IDLE after any later edge, nor at the end of *)
(* the pass, and after a later non-threat edge carrying it it is UNLOCK.    *)
C12_NoDowngrade ==
    \A d \in Doors : \A i \in 1..EdgesDone :
        AssignedUnlockAt(i, d) =>
            /\ DoorGet(doors_state, d) # "LOCK_IDLE"
            /\ \A j \in (i + 1)..EdgesDone :
                   (j = EdgesDone /\ edges[j].door_id = d /\ ~ThreatEdge(edges[j]))
                       => DoorGet(doors_state, d) = "UNLOCK"

(* A door id was assigned UNLOCK at an edge, and a later non-threat edge    *)
(* carrying the same door id has just been evaluated.                      *)
C12_Witness ==
    \E d \in Doors : \E i \in 1..EdgesDone :
        /\ AssignedUnlockAt(i, d)
        /\ i < EdgesDone
        /\ edges[EdgesDone].door_id = d
        /\ ~ThreatEdge(edges[EdgesDone])
        /\ doors_state[d] = "UNLOCK"

----------------------------------------------------------------------------
(* A hop crosses an edge of the building in either direction. *)
Hops ==
    UNION {{[from |-> edges[k].from, to |-> edges[k].to, edge |-> k],
            [from |-> edges[k].to, to |-> edges[k].from, edge |-> k]} : k \in 1..Len(edges)}

(* The walks of the building short enough to visit no node twice. *)
Walks == SeqsUpTo(Hops, NumNodes - 1)

(* The walk starts at r and each hop starts where the one before ends. *)
ContiguousFrom(w, r) ==
    /\ w # <<>>
    /\ w[1].from = r
    /\ \A k \in 1..(Len(w) - 1) : w[k].to = w[k + 1].from

NodesVisited(w) == {w[k].from : k \in 1..Len(w)} \cup {w[k].to : k \in 1..Len(w)}

HasDoor(d) == d # NoDoor

(* The door ids of the door-bearing edges of the walk, in order. *)
DoorsAlong(w) == SelectSeq([k \in 1..Len(w) |-> edges[w[k].edge].door_id], HasDoor)

(* w is a path for the EVAC record rp of the room r. *)
EvacPathFor(r, rp, w) ==
    /\ ContiguousFrom(w, r)
    /\ w[Len(w)].to = rp.exit
    /\ NodesVisited(w) \cap hazards = {}
    /\ \A k \in 1..Len(w) : w[k].from \notin ExitSet
    /\ rp.path_edges = DoorsAlong(w)

EvacSoFar == {r \in DOMAIN room_plans : room_plans[r].mode = "EVAC"}

InCall == pc \in {"rooms", "doors", "return"}

(* C13: for every room classified EVAC the recorded exit is an exit node    *)
(* outside the hazard set, and path_edges is the ordered list of the door  *)
(* ids of the door-bearing edges of one contiguous path from the room to   *)
(* that exit which visits no hazardous node and no exit before its end;    *)
(* the used-by-any set is the union of the path_edges of the EVAC rooms.   *)
C13_EvacRecordsPath ==
    InCall =>
        /\ \A r \in EvacSoFar :
              /\ IsExit(room_plans[r].exit)
              /\ room_plans[r].exit \notin hazards
              /\ \E w \in Walks : EvacPathFor(r, room_plans[r], w)
        /\ used_by_any = UNION {SeqRange(room_plans[r].path_edges) : r \in EvacSoFar}

(* The room loop is over with two EVAC rooms, one of them with a path of    *)
(* two hops over a doorless and a door-bearing edge, and a door in use.    *)
C13_Witness ==
    /\ pc = "return"
    /\ Cardinality(EvacSoFar) >= 2
    /\ used_by_any # {}
    /\ \E r \in EvacSoFar : \E w \in Walks :
          /\ EvacPathFor(r, room_plans[r], w)
          /\ Len(w) = 2
          /\ Len(room_plans[r].path_edges) = 1

====
